---- MODULE Spec2Model ----
(***************************************************************************)
(* A model of the UCVM one-dimensional velocity model                      *)
(* (ucvm/models/velocity/onedimensional/onedimensional.py), of the UCVM    *)
(* installer script (setup.py) and of the acceptance test of a model       *)
(* (ucvm/src/shared/test.py).                                              *)
(*                                                                         *)
(* Python floats are modelled as exact rationals <<numerator, denominator>>*)
(* in lowest terms with a positive denominator; Python's None, where a     *)
(* float may stand, is the empty tuple.  Python lists are sequences, so    *)
(* the source's index k is the model's index k + 1.                        *)
(***************************************************************************)
EXTENDS Integers, Sequences, FiniteSets, TLC

VARIABLES
    layers,     \* lookup: the layer table, as mutated by the depth lookups
    parsed,     \* lookup: the layer table as the parser produced it
    lk,         \* lookup: the last call of _get_velocity_data and its outcome
    files,      \* query: the profile files that exist, by directory
    kwargs,     \* query: the keyword arguments of the query
    data,       \* query: the batch of points, each with its velocity data
    ret,        \* query: how _query ended
    num,        \* sizeof_fmt: the argument
    fmt,        \* sizeof_fmt: the returned text
    pc,         \* installer: the position of the script
    inst,       \* installer: the script's variables and what it has run
    acceptance  \* acceptance test: the locals of run_acceptance_test

vars == <<layers, parsed, lk, files, kwargs, data, ret, num, fmt, pc, inst, acceptance>>

lookupVars == <<layers, parsed, lk>>
queryVars == <<files, kwargs, data, ret>>
fmtVars == <<num, fmt>>
installVars == <<pc, inst>>
acceptVars == <<acceptance>>

(***************************************************************************)
(* Floats as rationals.                                                    *)
(***************************************************************************)
None == <<>>

\* None where a string may stand
NoneStr == "<None>"

Abs(n) == IF n < 0 THEN -n ELSE n

RECURSIVE GCD(_, _)
GCD(a, b) == IF b = 0 THEN a ELSE GCD(b, a % b)

\* n / d in lowest terms, d # 0
Ratio(n, d) ==
    LET s == IF d < 0 THEN -1 ELSE 1
        g == GCD(Abs(n), Abs(d))
    IN  <<(s * n) \div g, (s * d) \div g>>

float(i) == <<i, 1>>
FAdd(a, b) == Ratio(a[1] * b[2] + b[1] * a[2], a[2] * b[2])
FSub(a, b) == Ratio(a[1] * b[2] - b[1] * a[2], a[2] * b[2])
FMul(a, b) == Ratio(a[1] * b[1], a[2] * b[2])
FDiv(a, b) == Ratio(a[1] * b[2], a[2] * b[1])
FGt(a, b) == a[1] * b[2] > b[1] * a[2]
FGe(a, b) == a[1] * b[2] >= b[1] * a[2]

(***************************************************************************)
(* How a call ends: it returns a value or raises an exception.             *)
(***************************************************************************)
Return(v) == [raised |-> "", value |-> <<v>>]
Raise(e) == [raised |-> e, value |-> <<>>]
Returned(o) == o.raised = ""
ValueOf(o) == o.value[1]

(***************************************************************************)
(* _parse_bbp_model.  The text is a sequence of lines and a line the       *)
(* sequence of its whitespace-separated tokens; every token of the bounded *)
(* inputs is a number (in km, km/s, g/cc), so is_number holds of the first *)
(* token of every non-blank line, and every non-blank line gives vs and    *)
(* density, so the empirical scaling of a missing vs or density is never   *)
(* called.                                                                 *)
(***************************************************************************)
bbp_layer(current_depth, split_str) ==
    LET p_velocity == FMul(float(split_str[2]), float(1000))
        density == FMul(float(split_str[4]), float(1000))
        s_velocity == FMul(float(split_str[3]), float(1000))
        qp_attenuation == IF Len(split_str) > 4 THEN float(split_str[5]) ELSE None
        qs_attenuation == IF Len(split_str) > 5 THEN float(split_str[6]) ELSE None
    IN  <<current_depth, p_velocity, s_velocity, density, qp_attenuation, qs_attenuation>>

RECURSIVE bbp_lines(_, _, _)
bbp_lines(text_info, current_depth, acc) ==
    IF text_info = <<>> THEN acc
    ELSE LET split_str == Head(text_info)
         IN  IF Len(split_str) = 0
             THEN bbp_lines(Tail(text_info), current_depth, acc)
             ELSE bbp_lines(Tail(text_info),
                            FAdd(current_depth, FMul(float(split_str[1]), float(1000))),
                            Append(acc, bbp_layer(current_depth, split_str)))

\* the layers appended to an empty list
_parse_bbp_model(text_info) == bbp_lines(text_info, float(0), <<>>)

(***************************************************************************)
(* _get_velocity_data                                                      *)
(***************************************************************************)
\* layers.append(layers[-1])
\* the appended entry being a copy of the first layer
with_first_as_sentinel(ls) == Append(ls, ls[1])

\* layers.append(layers[-1])
with_sentinel(ls) == Append(ls, ls[Len(ls)])

\* the scan ending at a layer whose top is at the depth, too
scan_stops_at_equal(layer, depth) == FGe(layer[1], depth)

\* the comparison that ends the scan of the table
scan_stops(layer, depth) == FGt(layer[1], depth)

\* the index at which the for loop breaks, 0 when it runs to the end
break_index(ls, depth) ==
    LET hits == {k \in 1 .. Len(ls) : scan_stops(ls[k], depth)}
    IN  IF hits = {} THEN 0 ELSE CHOOSE k \in hits : \A j \in hits : k <= j

\* <<previous_layer, current_layer>> after the for loop
scan_layers(ls, depth) ==
    LET b == break_index(ls, depth)
    IN  IF b = 0 THEN <<ls[Len(ls) - 1], ls[Len(ls)]>>
        ELSE IF b = 1 THEN <<None, ls[1]>>
        ELSE <<ls[b - 1], ls[b]>>

VelocityProperties(vp, vs, density, qp, qs, vp_s, vs_s, density_s, qp_s, qs_s) ==
    [vp |-> vp, vs |-> vs, density |-> density, qp |-> qp, qs |-> qs,
     vp_source |-> vp_s, vs_source |-> vs_s, density_source |-> density_s,
     qp_source |-> qp_s, qs_source |-> qs_s]

\* percentage * (current_layer[k] - previous_layer[k]) + previous_layer[k]
\*     if previous_layer[k] is not None else None
interpolated(percentage, previous_layer, current_layer, k) ==
    IF previous_layer[k] # None
    THEN FAdd(FMul(percentage, FSub(current_layer[k], previous_layer[k])),
              previous_layer[k])
    ELSE None

\* a field whose interpolation subtracts a float from None
interpolation_fails(previous_layer, current_layer) ==
    \E k \in 2 .. 6 : previous_layer[k] # None /\ current_layer[k] = None

\* the provenance label of an interpolated field
interpolated_name(name) == name \o " (interpolated)"

\* the outcome of _get_velocity_data(depth, layers, interpolate, name)
_get_velocity_data(depth, ls, interpolate, name) ==
    IF Len(ls) = 0 THEN Raise("IndexError")
    ELSE
    LET sl == scan_layers(with_sentinel(ls), depth)
        previous_layer == sl[1]
        current_layer == sl[2]
    IN  IF previous_layer = current_layer
        THEN Return(VelocityProperties(current_layer[2], current_layer[3],
                                       current_layer[4], current_layer[5],
                                       current_layer[6], name, name, name, name, name))
        ELSE IF previous_layer = None THEN Raise("TypeError")
        ELSE IF interpolate
        THEN IF current_layer[1] = previous_layer[1] THEN Raise("ZeroDivisionError")
             ELSE IF interpolation_fails(previous_layer, current_layer)
             THEN Raise("TypeError")
             ELSE LET percentage == FDiv(FSub(depth, previous_layer[1]),
                                         FSub(current_layer[1], previous_layer[1]))
                  IN  Return(VelocityProperties(
                          interpolated(percentage, previous_layer, current_layer, 2),
                          interpolated(percentage, previous_layer, current_layer, 3),
                          interpolated(percentage, previous_layer, current_layer, 4),
                          interpolated(percentage, previous_layer, current_layer, 5),
                          interpolated(percentage, previous_layer, current_layer, 6),
                          interpolated_name(name), interpolated_name(name),
                          interpolated_name(name), interpolated_name(name),
                          interpolated_name(name)))
        ELSE Return(VelocityProperties(previous_layer[2], previous_layer[3],
                                       previous_layer[4], previous_layer[5],
                                       previous_layer[6], name, name, name, name, name))

\* the table after the call: the appended entry stays in the caller's list
layers_after(ls) == IF Len(ls) = 0 THEN ls ELSE with_sentinel(ls)

(***************************************************************************)
(* The values of the variables of the parts a specification leaves alone.  *)
(***************************************************************************)
NoCall == [n |-> 0, depth |-> None, interpolate |-> FALSE, out |-> Raise("no call")]

lookupIdle == layers = <<>> /\ parsed = <<>> /\ lk = NoCall

(***************************************************************************)
(* The depth lookup on its own: Init parses a BBP text into the table and  *)
(* every step is one call of _get_velocity_data on that table, which keeps *)
(* the entries the earlier calls appended.                                 *)
(***************************************************************************)
MaxLines == 3
MaxCalls == 2

\* layer thickness in km, and the km/s value the line's other columns derive from
Thicknesses == {0, 1}
BaseValues == {1, 2}

\* a blank line, and lines of four, five and six columns
BbpLineSet ==
    {<<>>} \cup
    UNION {{<<t, v + 3, v + 1, v + 2>>,
            <<t, v + 3, v + 1, v + 2, 10 * v>>,
            <<t, v + 3, v + 1, v + 2, 10 * v, 20 * v>>} :
           <<t, v>> \in Thicknesses \X BaseValues}

BbpTexts == UNION {[1 .. n -> BbpLineSet] : n \in 0 .. MaxLines}

QueryDepths == {-500, 0, 500, 1000, 1500, 2000, 3000}

LookupName == "bbp 1d"

InitLookup ==
    /\ \E text_info \in BbpTexts :
          /\ parsed = _parse_bbp_model(text_info)
          /\ layers = _parse_bbp_model(text_info)
    /\ lk = NoCall
    /\ files = <<>> /\ kwargs = <<>> /\ data = <<>> /\ ret = <<>>
    /\ num = 0 /\ fmt = ""
    /\ pc = "idle" /\ inst = <<>>
    /\ acceptance = <<>>

GetVelocityData ==
    /\ lk.n < MaxCalls
    /\ \E depth \in QueryDepths, interpolate \in BOOLEAN :
          lk' = [n |-> lk.n + 1, depth |-> float(depth), interpolate |-> interpolate,
                 out |-> _get_velocity_data(float(depth), layers, interpolate,
                                            LookupName)]
    /\ layers' = layers_after(layers)
    /\ UNCHANGED <<parsed, queryVars, fmtVars, installVars, acceptVars>>

NextLookup == GetVelocityData

SpecLookup == InitLookup /\ [][NextLookup]_vars

(***************************************************************************)
(* Properties of the depth lookup.                                         *)
(***************************************************************************)
FieldsTogether(v) ==
    /\ (v.vp = None) <=> (v.vp_source = NoneStr)
    /\ (v.vs = None) <=> (v.vs_source = NoneStr)
    /\ (v.density = None) <=> (v.density_source = NoneStr)
    /\ (v.qp = None) <=> (v.qp_source = NoneStr)
    /\ (v.qs = None) <=> (v.qs_source = NoneStr)

\* C1: in every VelocityProperties the depth lookup returns, each of vp, vs,
\* density, qp, qs and its provenance string are both absent or both present.
C1_ValueAndProvenanceTogether ==
    (lk.n > 0 /\ Returned(lk.out)) => FieldsTogether(ValueOf(lk.out))

LastLayer == parsed[Len(parsed)]

\* the result that carries a layer's five values unchanged, labelled name
LayerVerbatim(layer, name) ==
    [vp |-> layer[2], vs |-> layer[3], density |-> layer[4], qp |-> layer[5],
     qs |-> layer[6], vp_source |-> name, vs_source |-> name,
     density_source |-> name, qp_source |-> name, qs_source |-> name]

\* C3: a lookup at a depth greater than or equal to the last layer's top depth
\* returns the last layer's vp, vs, density, qp and qs unchanged, with
\* interpolation enabled and with it disabled.
C3_LastLayerUnchanged ==
    (lk.n > 0 /\ Len(parsed) > 0 /\ FGe(lk.depth, LastLayer[1])) =>
        /\ Returned(lk.out)
        /\ ValueOf(lk.out) = LayerVerbatim(LastLayer, LookupName)

\* an interpolating lookup below the top of the last of three layers whose
\* values differ from those of the layer above it
C3_Witness ==
    /\ lk.n > 0 /\ Len(parsed) = 3 /\ lk.interpolate
    /\ FGt(LastLayer[1], parsed[2][1]) /\ LastLayer[2] # parsed[2][2]
    /\ FGt(lk.depth, LastLayer[1])
    /\ Returned(lk.out) /\ ValueOf(lk.out).vp = LastLayer[2]

\* the layer pairs L_k, L_k+1 of the parsed table that bracket the depth
Brackets(depth) ==
    {k \in 1 .. Len(parsed) - 1 :
        FGe(depth, parsed[k][1]) /\ FGt(parsed[k + 1][1], depth)}

\* L_k.field + ((d - top(L_k)) / (top(L_k+1) - top(L_k))) * (L_k+1.field - L_k.field)
Linear(d, lo, hi, f) ==
    FAdd(lo[f], FMul(FDiv(FSub(d, lo[1]), FSub(hi[1], lo[1])), FSub(hi[f], lo[f])))

FieldOf(v, f) ==
    CASE f = 2 -> v.vp [] f = 3 -> v.vs [] f = 4 -> v.density
      [] f = 5 -> v.qp [] f = 6 -> v.qs

AllSources(v, name) ==
    /\ v.vp_source = name /\ v.vs_source = name /\ v.density_source = name
    /\ v.qp_source = name /\ v.qs_source = name

\* C4: for a depth d with top(L_k) <= d < top(L_k+1), an interpolating lookup
\* returns, field by field, L_k.field + ((d - top(L_k)) / (top(L_k+1) -
\* top(L_k))) * (L_k+1.field - L_k.field) with every provenance
\* "<name> (interpolated)", and a lookup without interpolation returns L_k's
\* values verbatim with every provenance "<name>".
C4_BracketedLookup ==
    lk.n > 0 =>
        \A k \in Brackets(lk.depth) :
            /\ Returned(lk.out)
            /\ lk.interpolate =>
                  /\ \A f \in 2 .. 6 :
                        (parsed[k][f] # None /\ parsed[k + 1][f] # None) =>
                            FieldOf(ValueOf(lk.out), f) =
                                Linear(lk.depth, parsed[k], parsed[k + 1], f)
                  /\ AllSources(ValueOf(lk.out), LookupName \o " (interpolated)")
            /\ ~lk.interpolate =>
                  ValueOf(lk.out) = LayerVerbatim(parsed[k], LookupName)

(***************************************************************************)
(* _parse_scec_model.  data_info["layers"]["layer"] is a sequence of       *)
(* records, one per <layer> element, a child element that is missing being *)
(* the empty tuple and one that is present the 1-tuple of its number.      *)
(* Every layer of the bounded inputs gives vp, vs and density.             *)
(***************************************************************************)
\* layer_dict[i]: the last element numbered i
layer_dict(layer_list, i) ==
    LET at == {j \in 1 .. Len(layer_list) : layer_list[j].number = i}
    IN  layer_list[CHOOSE j \in at : \A m \in at : m <= j]

opt_float(x) == IF x = <<>> THEN None ELSE float(x[1])

scec_layer(last_depth, l) ==
    LET p_velocity == FMul(float(l.vp[1]), float(1000))
        density == FMul(float(l.density[1]), float(1000))
        s_velocity == FMul(float(l.vs[1]), float(1000))
    IN  <<last_depth, p_velocity, s_velocity, density, opt_float(l.qp), opt_float(l.qs)>>

RECURSIVE scec_layers(_, _, _, _)
scec_layers(layer_list, i, last_depth, acc) ==
    IF i > Cardinality({layer_list[j].number : j \in 1 .. Len(layer_list)}) THEN acc
    ELSE LET l == layer_dict(layer_list, i)
         IN  scec_layers(layer_list, i + 1, FMul(float(l.depth), float(1000)),
                         Append(acc, scec_layer(last_depth, l)))

_parse_scec_model(layer_list) == scec_layers(layer_list, 1, float(0), <<>>)

(***************************************************************************)
(* _query.  params is the sequence of the pieces of kwargs["params"]       *)
(* between its commas; a path is <<directory, file name>>, the directory   *)
(* "." or the model's packaged "data" directory.                           *)
(***************************************************************************)
\* str.strip().lower() on the strings of the bounded inputs
strip_lower(x) ==
    CASE x = "A" -> "a"
      [] x = "Linear" -> "linear"
      [] x = "BBP" -> "bbp"
      [] x = "Local A" -> "local a"
      [] x = "SCEC 1D" -> "scec 1d"
      [] OTHER -> x

\* ",".join(tokens)
RECURSIVE join(_)
join(tokens) ==
    IF Len(tokens) = 0 THEN ""
    ELSE IF Len(tokens) = 1 THEN tokens[1]
    ELSE tokens[1] \o "," \o join(Tail(tokens))

\* list.remove(x): the list without the first x
RECURSIVE remove(_, _)
remove(tokens, x) ==
    IF tokens = <<>> THEN <<>>
    ELSE IF Head(tokens) = x THEN Tail(tokens)
    ELSE <<Head(tokens)>> \o remove(Tail(tokens), x)

contains(tokens, x) == \E i \in 1 .. Len(tokens) : tokens[i] = x

HasParams(kw) == kw.has_params

split_params(kw) == [i \in 1 .. Len(kw.params) |-> strip_lower(kw.params[i])]

\* the interpolation the tokens of params force, None when they force none
forced_interpolation(kw) ==
    IF HasParams(kw) /\ Len(split_params(kw)) > 1
    THEN IF contains(split_params(kw), "linear") THEN "linear"
         ELSE IF contains(split_params(kw), "none") THEN "none"
         ELSE NoneStr
    ELSE NoneStr

\* split_str after the removal of the token that was found
remaining_tokens(kw) ==
    IF contains(split_params(kw), "linear") THEN remove(split_params(kw), "linear")
    ELSE IF contains(split_params(kw), "none") THEN remove(split_params(kw), "none")
    ELSE split_params(kw)

\* the profile name the file is looked up by
profile_name(kw) ==
    IF HasParams(kw)
    THEN IF Len(split_params(kw)) > 1 THEN join(remaining_tokens(kw))
         ELSE join(kw.params)
    ELSE "SCEC 1D"

\* the candidate paths with the packaged directory tried first
query_paths_packaged_first(kw) ==
    IF HasParams(kw)
    THEN << <<"data", profile_name(kw) \o ".mdl">>, <<".", profile_name(kw) \o ".mdl">> >>
    ELSE << <<"data", "SCEC 1D.mdl">> >>

\* the candidate paths, in the order they are tried
query_paths(kw) ==
    IF HasParams(kw)
    THEN << <<".", profile_name(kw) \o ".mdl">>, <<"data", profile_name(kw) \o ".mdl">> >>
    ELSE << <<"data", "SCEC 1D.mdl">> >>

\* kwargs["params"] at the time the error is raised
params_value(kw) == IF HasParams(kw) THEN join(kw.params) ELSE "SCEC 1D"

\* os.path.exists
exists(fs, path) == path \in DOMAIN fs

\* the loop assigning xml_file before it tests the path: the last candidate
\* is left in xml_file when none exists
first_existing_or_last(fs, paths) ==
    LET found == {i \in 1 .. Len(paths) : exists(fs, paths[i])}
    IN  IF found = {} THEN paths[Len(paths)]
        ELSE paths[CHOOSE i \in found : \A j \in found : i <= j]

\* the first candidate path that exists, None when there is none
first_existing(fs, paths) ==
    LET found == {i \in 1 .. Len(paths) : exists(fs, paths[i])}
    IN  IF found = {} THEN None
        ELSE paths[CHOOSE i \in found : \A j \in found : i <= j]

\* display_and_raise_error(code, (arg,))
display_and_raise_error(code, arg) ==
    [raised |-> "UCVMError", code |-> code, arg |-> arg]

\* how the lookup of a missing profile ends
profile_not_found(kw) == display_and_raise_error(13, params_value(kw))

\* an exception that is not of the error catalog
python_error(e) == [raised |-> e, code |-> 0, arg |-> ""]

no_error == [raised |-> "", code |-> 0, arg |-> ""]

\* parsed_model, the layers apart
parsed_model(model_1d, kw) ==
    [name |-> strip_lower(model_1d.name),
     format |-> strip_lower(model_1d.format),
     interpolation |-> IF forced_interpolation(kw) = NoneStr
                       THEN strip_lower(model_1d.interpolation)
                       ELSE forced_interpolation(kw)]

parsed_layers(model_1d) ==
    IF strip_lower(model_1d.format) = "bbp"
    THEN _parse_bbp_model(model_1d.data)
    ELSE _parse_scec_model(model_1d.data)

\* the loop over the batch from point i on: the batch and the error, if any,
\* that ended the loop
RECURSIVE query_points(_, _, _, _, _)
query_points(batch, i, ls, interpolate, name) ==
    IF i > Len(batch) THEN [data |-> batch, error |-> no_error]
    ELSE LET out == _get_velocity_data(float(batch[i].z_value), ls, interpolate, name)
         IN  IF Returned(out)
             THEN query_points([batch EXCEPT ![i].velocity_properties = <<ValueOf(out)>>],
                               i + 1, layers_after(ls), interpolate, name)
             ELSE [data |-> batch, error |-> python_error(out.raised)]

\* the file opened for reading
open(fs, path) == IF exists(fs, path) THEN Return(fs[path]) ELSE Raise("FileNotFoundError")

\* the whole of _query: the batch it leaves, how it ended, and the paths, the
\* file and the model it worked with
_query(batch, kw, fs) ==
    LET paths == query_paths(kw)
        xml_file == first_existing(fs, paths)
        failed(e) == [data |-> batch, error |-> e, value |-> FALSE, paths |-> paths,
                      xml_file |-> xml_file, name |-> NoneStr,
                      interpolation |-> NoneStr, layers |-> <<>>]
    IN  IF xml_file = None THEN failed(profile_not_found(kw))
        ELSE IF ~Returned(open(fs, xml_file))
        THEN failed(python_error(open(fs, xml_file).raised))
        ELSE LET model_1d == ValueOf(open(fs, xml_file))
                 pm == parsed_model(model_1d, kw)
                 ls == parsed_layers(model_1d)
                 run == query_points(batch, 1, ls, pm.interpolation = "linear", pm.name)
             IN  [data |-> run.data, error |-> run.error,
                  value |-> run.error = no_error, paths |-> paths,
                  xml_file |-> xml_file, name |-> pm.name,
                  interpolation |-> pm.interpolation, layers |-> ls]

(***************************************************************************)
(* One query of the model: Init draws the profile files that exist, the    *)
(* keyword arguments and the batch; the step is the whole of _query.       *)
(***************************************************************************)
MaxTokens == 3
MaxBatch == 2

ParamTokens == {"a", "A", "linear", "none"}

BatchDepths == {-500, 500, 3000}

\* the profile files that may exist, with what they hold
ProfileWorld ==
    (<<".", "a.mdl">> :>
        [name |-> "Local A", format |-> "BBP", interpolation |-> "none",
         data |-> << <<1, 4, 2, 3, 10, 20>>, <<>>, <<1, 5, 3, 4, 20, 40>>,
                     <<0, 6, 4, 5, 30, 60>> >>]) @@
    (<<"data", "a.mdl">> :>
        [name |-> "a", format |-> "scec", interpolation |-> "Linear",
         data |-> << [number |-> 2, depth |-> 3, vp |-> <<6>>, vs |-> <<3>>,
                      density |-> <<3>>, qp |-> <<>>, qs |-> <<>>],
                     [number |-> 1, depth |-> 1, vp |-> <<4>>, vs |-> <<2>>,
                      density |-> <<2>>, qp |-> <<>>, qs |-> <<>>] >>]) @@
    (<<".", "SCEC 1D.mdl">> :>
        [name |-> "my scec", format |-> "bbp", interpolation |-> "none",
         data |-> << <<1, 5, 3, 2, 50, 25>>, <<1, 6, 3, 3, 60, 30>> >>]) @@
    (<<"data", "SCEC 1D.mdl">> :>
        [name |-> "SCEC 1D", format |-> "scec", interpolation |-> "linear",
         data |-> << [number |-> 1, depth |-> 1, vp |-> <<5>>, vs |-> <<3>>,
                      density |-> <<2>>, qp |-> <<40>>, qs |-> <<20>>],
                     [number |-> 2, depth |-> 2, vp |-> <<6>>, vs |-> <<4>>,
                      density |-> <<3>>, qp |-> <<60>>, qs |-> <<30>>] >>])

Restrict(f, S) == [x \in S |-> f[x]]

SeismicData(z) == [z_value |-> z, velocity_properties |-> <<>>]

Batches == UNION {[1 .. n -> {SeismicData(z) : z \in BatchDepths}] : n \in 0 .. MaxBatch}

Kwargs ==
    {[has_params |-> FALSE, params |-> <<>>]} \cup
    {[has_params |-> TRUE, params |-> p] :
        p \in UNION {[1 .. n -> ParamTokens] : n \in 1 .. MaxTokens}}

NotRun ==
    [done |-> FALSE, error |-> no_error, value |-> FALSE, paths |-> <<>>,
     xml_file |-> None, name |-> NoneStr, interpolation |-> NoneStr, layers |-> <<>>]

Init ==
    /\ files \in {Restrict(ProfileWorld, S) : S \in SUBSET DOMAIN ProfileWorld}
    /\ kwargs \in Kwargs
    /\ data \in Batches
    /\ ret = NotRun
    /\ lookupIdle
    /\ num = 0 /\ fmt = ""
    /\ pc = "idle" /\ inst = <<>>
    /\ acceptance = <<>>

\* the step leaves the batch as _query left it, and in ret how _query ended
Query ==
    /\ ~ret.done
    /\ data' = _query(data, kwargs, files).data
    /\ ret' = [done |-> TRUE] @@ [x \in DOMAIN NotRun \ {"done"} |->
                                     _query(data, kwargs, files)[x]]
    /\ UNCHANGED <<files, kwargs, lookupVars, fmtVars, installVars, acceptVars>>

Next == Query

Spec == Init /\ [][Next]_vars

(***************************************************************************)
(* Properties of the query.                                                *)
(***************************************************************************)
EveryPointSet == \A i \in 1 .. Len(data) : data[i].velocity_properties # <<>>
NoPointSet == \A i \in 1 .. Len(data) : data[i].velocity_properties = <<>>

\* C2: a query whose profile resolves and parses to at least one layer returns
\* success and leaves every point of the batch with a VelocityProperties,
\* whatever the points' vertical coordinates are.
C2_EveryPointAnswered ==
    (ret.done /\ ret.xml_file # None /\ Len(ret.layers) >= 1) =>
        /\ ret.error = no_error
        /\ ret.value
        /\ EveryPointSet

Reserved == {"linear", "none"}

Normalised == [i \in 1 .. Len(kwargs.params) |-> strip_lower(kwargs.params[i])]

IsPlain(tok) == tok \notin Reserved

ReservedGiven == {Normalised[i] : i \in 1 .. Len(Normalised)} \cap Reserved

\* C5: when params holds several comma-separated tokens and a reserved token
\* is among them, no reserved token is part of the name the file is looked up
\* by, which is the other tokens joined, and the reserved token that was given
\* is the interpolation mode the batch is answered with, whatever the profile
\* file declares.
C5_ReservedTokensExtracted ==
    (ret.done /\ kwargs.has_params /\ Len(kwargs.params) > 1 /\ ReservedGiven # {}) =>
        /\ \A i \in 1 .. Len(ret.paths) :
              ret.paths[i][2] = join(SelectSeq(Normalised, IsPlain)) \o ".mdl"
        /\ ret.xml_file # None => ret.interpolation \in ReservedGiven

RequestedFile == (IF kwargs.has_params THEN profile_name(kwargs) ELSE "SCEC 1D") \o ".mdl"

InCwd == <<".", RequestedFile>>
InPackage == <<"data", RequestedFile>>

Parsed(path) ==
    /\ ret.xml_file = path
    /\ ret.name = strip_lower(files[path].name)
    /\ ret.layers = parsed_layers(files[path])

\* C6, as claimed: for the name given in params and for the default "SCEC 1D"
\* alike, the file of the working directory is parsed when it exists, and the
\* packaged file only when the working directory has none.
C6_CwdFirstForEveryName ==
    ret.done =>
        /\ exists(files, InCwd) => Parsed(InCwd)
        /\ (~exists(files, InCwd) /\ exists(files, InPackage)) => Parsed(InPackage)

\* C6, amended: for a name given in params, the file of the working directory
\* is parsed when it exists and the packaged file only when the working
\* directory has none; the default "SCEC 1D", used when no params is given, is
\* looked up in the packaged data directory only.
C6_CwdFirstForGivenNames ==
    ret.done =>
        /\ kwargs.has_params =>
              /\ exists(files, InCwd) => Parsed(InCwd)
              /\ (~exists(files, InCwd) /\ exists(files, InPackage)) => Parsed(InPackage)
        /\ ~kwargs.has_params =>
              /\ exists(files, InPackage) => Parsed(InPackage)
              /\ ~exists(files, InPackage) => ret.xml_file = None

\* a query by name, over a batch, whose file is in both directories
C6_Witness ==
    /\ ret.done /\ kwargs.has_params
    /\ exists(files, InCwd) /\ exists(files, InPackage)
    /\ ret.xml_file = InCwd /\ Len(data) > 0 /\ EveryPointSet

\* C7: when no candidate path exists the query ends with error 13 of the error
\* catalog, which carries the profile as it was requested (params as given,
\* "SCEC 1D" without params); it does not return success and no point of the
\* batch has velocity data.
C7_NotFound ==
    (ret.done /\ \A i \in 1 .. Len(ret.paths) : ~exists(files, ret.paths[i])) =>
        /\ ret.error = [raised |-> "UCVMError", code |-> 13,
                        arg |-> IF kwargs.has_params THEN join(kwargs.params)
                                ELSE "SCEC 1D"]
        /\ ~ret.value
        /\ NoPointSet

\* a query for a profile that is in neither directory, over a batch of two
C7_Witness ==
    /\ ret.done /\ kwargs.has_params /\ Len(kwargs.params) > 1 /\ Len(data) = 2
    /\ \A i \in 1 .. Len(ret.paths) : ~exists(files, ret.paths[i])
    /\ Len(ret.paths) = 2
    /\ ret.error.code = 13

(***************************************************************************)
(* sizeof_fmt (setup.py).  The argument is an integer below 2^31, so the   *)
(* float quotient num / 1024**exponent is exact and '{:.Nf}' rounds it to  *)
(* N decimals, a tie going to the even digit.                              *)
(***************************************************************************)
\* the unit list with one decimal for kB
unit_list_kb_decimal ==
    << <<"bytes", 0>>, <<"kB", 1>>, <<"MB", 1>>, <<"GB", 2>>, <<"TB", 2>>, <<"PB", 2>> >>

unit_list ==
    << <<"bytes", 0>>, <<"kB", 0>>, <<"MB", 1>>, <<"GB", 2>>, <<"TB", 2>>, <<"PB", 2>> >>

RECURSIVE pow(_, _)
pow(b, n) == IF n = 0 THEN 1 ELSE b * pow(b, n - 1)

Min(a, b) == IF a < b THEN a ELSE b

\* int(log(num, 1024)) for num > 1
RECURSIVE int_log_1024(_)
int_log_1024(n) == IF n < 1024 THEN 0 ELSE 1 + int_log_1024(n \div 1024)

\* num * 10**decimals / 1024**exponent rounded to an integer, half to even.
\* For exponent > 0 the product is kept as t * 1024 + u, so that no
\* intermediate value leaves the 32-bit integers TLC computes with.
rounded_quotient(n, exponent, decimals) ==
    IF exponent = 0 THEN n * pow(10, decimals)
    ELSE LET m == pow(10, decimals)
             t == (n \div 1024) * m + ((n % 1024) * m) \div 1024
             u == ((n % 1024) * m) % 1024
             k == pow(1024, exponent - 1)
             q == t \div k
             r == (t % k) * 1024 + u
             half == (k \div 2) * 1024 + (IF k = 1 THEN 512 ELSE 0)
         IN  IF r > half \/ (r = half /\ q % 2 = 1) THEN q + 1 ELSE q

\* the digits of d, zero-padded on the left to width w
RECURSIVE digits(_, _)
digits(d, w) == IF w = 0 THEN "" ELSE digits(d \div 10, w - 1) \o ToString(d % 10)

\* '{:.Nf}'.format(quotient), the quotient given as the rounded count of
\* 10**-N units
fixed_point(units, decimals) ==
    IF decimals = 0 THEN ToString(units)
    ELSE ToString(units \div pow(10, decimals)) \o "." \o
         digits(units % pow(10, decimals), decimals)

sizeof_fmt(n) ==
    IF n > 1
    THEN LET exponent == Min(int_log_1024(n), Len(unit_list) - 1)
             unit == unit_list[exponent + 1][1]
             num_decimals == unit_list[exponent + 1][2]
         IN  fixed_point(rounded_quotient(n, exponent, num_decimals), num_decimals)
             \o " " \o unit
    ELSE IF n = 0 THEN "0 bytes"
    ELSE IF n = 1 THEN "1 byte"
    ELSE NoneStr

(***************************************************************************)
(* sizeof_fmt on its own: Init draws the size, the step formats it.        *)
(***************************************************************************)
MaxBytes == 80

Sizes ==
    (-1 .. MaxBytes) \cup
    {1000, 1023, 1024, 1025, 1535, 1536, 1537, 2047, 2560, 3584, 10240, 1047552,
     1048064, 1048575, 1048576, 1100000, 1101005, 1153434, 1205862, 1258291, 1572864,
     10485760, 104857600, 1073689395, 1073741823, 1073741824, 1079110533,
     1084479242, 1089847951, 1610612736, 2147483647}

NotFormatted == ""

InitFmt ==
    /\ num \in Sizes
    /\ fmt = NotFormatted
    /\ lookupIdle
    /\ files = <<>> /\ kwargs = <<>> /\ data = <<>> /\ ret = <<>>
    /\ pc = "idle" /\ inst = <<>>
    /\ acceptance = <<>>

SizeofFmt ==
    /\ fmt = NotFormatted
    /\ fmt' = sizeof_fmt(num)
    /\ UNCHANGED <<num, lookupVars, queryVars, installVars, acceptVars>>

NextFmt == SizeofFmt

SpecFmt == InitFmt /\ [][NextFmt]_vars

\* C8, as claimed: 0 gives "0 bytes", 1 gives "1 byte", 1024 gives "1.0 kB",
\* 1,048,576 gives "1.0 MB" and 1,073,741,824 gives "1.00 GB".
C8_FormatsAsClaimed ==
    fmt # NotFormatted =>
        /\ num = 0 => fmt = "0 bytes"
        /\ num = 1 => fmt = "1 byte"
        /\ num = 1024 => fmt = "1.0 kB"
        /\ num = 1048576 => fmt = "1.0 MB"
        /\ num = 1073741824 => fmt = "1.00 GB"

\* C8, amended: 0 gives "0 bytes", 1 gives "1 byte", 1024 gives "1 kB" (kB
\* has no decimals), 1,048,576 gives "1.0 MB" and 1,073,741,824 gives "1.00 GB".
C8_Formats ==
    fmt # NotFormatted =>
        /\ num = 0 => fmt = "0 bytes"
        /\ num = 1 => fmt = "1 byte"
        /\ num = 1024 => fmt = "1 kB"
        /\ num = 1048576 => fmt = "1.0 MB"
        /\ num = 1073741824 => fmt = "1.00 GB"

\* 1024 formatted
C8_Witness == num = 1024 /\ fmt = "1 kB"

(***************************************************************************)
(* The installer script (setup.py).  A model is the pair <<id, name>>; the *)
(* catalog is the four lists of model_list, in the order the script walks  *)
(* them: velocity, elevation, vs30, modifier.  What the script runs is     *)
(* kept in inst.log, one entry per step, a subprocess with its return code.*)
(***************************************************************************)
mandatory_models ==
    << <<"onedimensional", "1D">>,
       <<"usgs-noaa", "USGS/NOAA Digital Elevation Model">>,
       <<"wills-wald-2006", "Wills-Wald Vs30">>,
       <<"vs30-calc", "Calculated Vs30 from the model (top 30 meters slowness)">> >>

\* (item["id"], item["name"]) in models_to_download
slated(item, models_to_download) ==
    \E i \in 1 .. Len(models_to_download) : models_to_download[i] = item

\* a category all of whose models are slated already is passed over
all_slated(models, models_to_download) ==
    \A j \in 1 .. Len(models) : slated(models[j], models_to_download)

\* an answer taken for a yes when it has a "y" anywhere, not only in front
answers_yes_anywhere(answer) == answer \in {"y", "Y", "yes", " Yes", "maybe"}

\* str(input(...)).strip().lower()[:1] == "y" on the answers of the bounded inputs
answers_yes(answer) == answer \in {"y", "Y", "yes", " Yes"}

\* the loop over models_to_download stopping one model short
models_left_but_last(i, models_to_download) == i < Len(models_to_download)

\* the for loop over models_to_download has a model left to install
models_left(i, models_to_download) == i <= Len(models_to_download)

Event(ev, id, rc) == [ev |-> ev, id |-> id, rc |-> rc]

\* execute(cmd) read to its end: the subprocess has run and exited with rc
execute(log, cmd, id, rc) == Append(log, Event(cmd, id, rc))

MaxPerCategory == 2

VelocityItems ==
    {<<"onedimensional", "1D">>, <<"onedimensional", "1D Velocity Model">>,
     <<"cvms4", "CVM-S4">>}

Answers == {"y", " Yes", "n", "", "maybe"}

Catalogs ==
    {<<v, e, s, m>> :
        v \in UNION {[1 .. n -> VelocityItems] : n \in 0 .. MaxPerCategory},
        e \in {<<>>, <<mandatory_models[2]>>},
        s \in {<<mandatory_models[3], mandatory_models[4]>>, <<mandatory_models[3]>>},
        m \in {<<>>, << <<"elygtl", "Ely GTL">> >>}}

InitInstall ==
    /\ pc = "category"
    /\ \E everything \in BOOLEAN, model_list \in Catalogs :
          inst = [download_everything |-> everything,
                  model_list |-> model_list,
                  models_to_download |-> mandatory_models,
                  key |-> 1, item |-> 1, model |-> 1,
                  accepted |-> <<>>,
                  confirmation |-> NoneStr,
                  log |-> <<>>,
                  exit_status |-> 0]
    /\ lookupIdle
    /\ files = <<>> /\ kwargs = <<>> /\ data = <<>> /\ ret = <<>>
    /\ num = 0 /\ fmt = ""
    /\ acceptance = <<>>

\* for key, models in model_list.items(): the head of the loop body
WalkCategory ==
    /\ pc = "category"
    /\ IF inst.key > Len(inst.model_list)
       THEN pc' = "sizes" /\ inst' = inst
       ELSE IF all_slated(inst.model_list[inst.key], inst.models_to_download)
       THEN pc' = "category" /\ inst' = [inst EXCEPT !.key = @ + 1]
       ELSE pc' = "item" /\ inst' = [inst EXCEPT !.item = 1]
    /\ UNCHANGED <<lookupVars, queryVars, fmtVars, acceptVars>>

\* for item in models: one model of the category
WalkItem ==
    /\ pc = "item"
    /\ LET models == inst.model_list[inst.key]
       IN  IF inst.item > Len(models)
           THEN pc' = "category" /\ inst' = [inst EXCEPT !.key = @ + 1]
           ELSE /\ pc' = "item"
                /\ IF slated(models[inst.item], inst.models_to_download)
                   THEN inst' = [inst EXCEPT !.item = @ + 1]
                   ELSE IF inst.download_everything
                   THEN inst' = [inst EXCEPT
                                   !.models_to_download = Append(@, models[inst.item]),
                                   !.item = @ + 1]
                   ELSE \E answer \in Answers :
                           IF answers_yes(answer)
                           THEN inst' = [inst EXCEPT
                                   !.models_to_download = Append(@, models[inst.item]),
                                   !.accepted = Append(@, models[inst.item]),
                                   !.item = @ + 1]
                           ELSE inst' = [inst EXCEPT !.item = @ + 1]
    /\ UNCHANGED <<lookupVars, queryVars, fmtVars, acceptVars>>

\* the list of the selected models with their sizes
ListSizes ==
    /\ pc = "sizes"
    /\ pc' = "confirm"
    /\ inst' = [inst EXCEPT !.log = Append(@, Event("sizes", "", 0))]
    /\ UNCHANGED <<lookupVars, queryVars, fmtVars, acceptVars>>

\* the final confirmation, asked unless --everything was given
Confirm ==
    /\ pc = "confirm"
    /\ IF inst.download_everything
       THEN pc' = "setup" /\ inst' = inst
       ELSE \E answer \in Answers :
               IF ~answers_yes(answer)
               THEN /\ pc' = "exited"
                    /\ inst' = [inst EXCEPT !.log = Append(@, Event("confirm", "no", 0)),
                                            !.confirmation = answer,
                                            !.exit_status = 1]
               ELSE /\ pc' = "setup"
                    /\ inst' = [inst EXCEPT !.log = Append(@, Event("confirm", "yes", 0)),
                                            !.confirmation = answer]
    /\ UNCHANGED <<lookupVars, queryVars, fmtVars, acceptVars>>

\* setup(...): the package installation
InstallPackage ==
    /\ pc = "setup"
    /\ pc' = "models"
    /\ inst' = [inst EXCEPT !.log = Append(@, Event("setup", "", 0)), !.model = 1]
    /\ UNCHANGED <<lookupVars, queryVars, fmtVars, acceptVars>>

\* for model in models_to_download: ucvm_model_manager -a model[0], run to its
\* end; a return code other than 0 raises CalledProcessError
InstallModel ==
    /\ pc = "models"
    /\ IF models_left(inst.model, inst.models_to_download)
       THEN \E rc \in {0, 1} :
               /\ inst' = [inst EXCEPT
                             !.log = execute(@, "ucvm_model_manager",
                                             inst.models_to_download[inst.model][1], rc),
                             !.model = @ + 1,
                             !.exit_status = IF rc = 0 THEN 0 ELSE 1]
               /\ pc' = IF rc = 0 THEN "models" ELSE "raised"
       ELSE pc' = "tests" /\ inst' = inst
    /\ UNCHANGED <<lookupVars, queryVars, fmtVars, acceptVars>>

\* ucvm_run_tests -t, run to its end
RunTests ==
    /\ pc = "tests"
    /\ \E rc \in {0, 1} :
          /\ inst' = [inst EXCEPT !.log = execute(@, "ucvm_run_tests", "", rc),
                                  !.exit_status = IF rc = 0 THEN 0 ELSE 1]
          /\ pc' = IF rc = 0 THEN "done" ELSE "raised"
    /\ UNCHANGED <<lookupVars, queryVars, fmtVars, acceptVars>>

NextInstall ==
    \/ WalkCategory
    \/ WalkItem
    \/ ListSizes
    \/ Confirm
    \/ InstallPackage
    \/ InstallModel
    \/ RunTests

SpecInstall == InitInstall /\ [][NextInstall]_vars

(***************************************************************************)
(* Properties of the installer.                                            *)
(***************************************************************************)
Range(q) == {q[i] : i \in 1 .. Len(q)}

\* the models of the catalog that are not mandatory components
OptionalModels ==
    UNION {Range(inst.model_list[k]) : k \in 1 .. Len(inst.model_list)}
        \ Range(mandatory_models)

\* the positions of the log at which the Model Manager was run
ManagerRuns == {i \in 1 .. Len(inst.log) : inst.log[i].ev = "ucvm_model_manager"}

\* C9: in a completed run the selection is the four mandatory components and
\* exactly the optional catalog models that were accepted (all of them with
\* --everything), and the Model Manager is run once per selected model: no
\* identifier is passed to it twice and no selected model is skipped.
C9_OncePerSelectedModel ==
    pc = "done" =>
        /\ SubSeq(inst.models_to_download, 1, 4) = mandatory_models
        /\ Range(inst.models_to_download) =
              Range(mandatory_models) \cup
              (IF inst.download_everything THEN OptionalModels ELSE Range(inst.accepted))
        /\ \A i, j \in ManagerRuns : inst.log[i].id = inst.log[j].id => i = j
        /\ {inst.log[i].id : i \in ManagerRuns} =
              {m[1] : m \in Range(inst.models_to_download)}

Before(i, ev) == \E j \in 1 .. i - 1 : inst.log[j].ev = ev

\* C10: the final confirmation, when it is asked, precedes the package
\* installation, the package installation precedes every run of the Model
\* Manager, and the Test Runner is run only after the Model Manager has run to
\* its end for every selected model, never before or between its runs.
C10_InstallOrder ==
    \A i \in 1 .. Len(inst.log) :
        /\ (inst.log[i].ev = "setup" /\ ~inst.download_everything) =>
              \E j \in 1 .. i - 1 : inst.log[j] = Event("confirm", "yes", 0)
        /\ inst.log[i].ev = "confirm" => ~Before(i, "setup")
        /\ inst.log[i].ev = "ucvm_model_manager" =>
              Before(i, "setup") /\ ~Before(i, "ucvm_run_tests")
        /\ inst.log[i].ev = "ucvm_run_tests" =>
              \A k \in 1 .. Len(inst.models_to_download) :
                  \E j \in 1 .. i - 1 :
                      inst.log[j] = Event("ucvm_model_manager",
                                          inst.models_to_download[k][1], 0)

\* a completed interactive run that installed six models and ran the tests
C10_Witness ==
    /\ pc = "done" /\ ~inst.download_everything
    /\ Len(inst.models_to_download) = 6
    /\ Cardinality(ManagerRuns) = 6
    /\ inst.log[Len(inst.log)] = Event("ucvm_run_tests", "", 0)

\* the answers of the bounded inputs whose first character, once the answer is
\* trimmed and put in lower case, is not "y"
Declining == {"n", "", "maybe"}

\* the steps that install something: the package, a model, the tests
Installs == {"setup", "ucvm_model_manager", "ucvm_run_tests"}

\* C11: without --everything, once the final confirmation is answered by
\* something that does not begin with "y" (trimmed, in any case), the script
\* has exited with a non-zero status and the run holds no package
\* installation, no run of the Model Manager and no run of the Test Runner.
C11_DeclinedInstallsNothing ==
    (~inst.download_everything /\ inst.confirmation \in Declining) =>
        /\ pc = "exited"
        /\ inst.exit_status # 0
        /\ \A i \in 1 .. Len(inst.log) : inst.log[i].ev \notin Installs

\* an interactive run in which two optional models were accepted and the final
\* confirmation was then answered "maybe"
C11_Witness ==
    /\ pc = "exited" /\ ~inst.download_everything
    /\ inst.confirmation = "maybe"
    /\ Len(inst.accepted) = 2
    /\ inst.log[Len(inst.log)] = Event("confirm", "no", 0)

(***************************************************************************)
(* The shared layer table over a batch.                                    *)
(***************************************************************************)
\* the entries the earlier lookups have appended to the parsed table
Appended == SubSeq(layers, Len(parsed) + 1, Len(layers))

\* C13: whatever lookups came before it on the shared table, each of which
\* appended a copy of the last layer, the lookup of depth d gives what the
\* lookup of d on the freshly parsed table gives: the same VelocityProperties,
\* or the same error where the fresh lookup fails.
C13_EarlierLookupsDoNotMatter ==
    lk.n > 0 =>
        lk.out = _get_velocity_data(lk.depth, parsed, lk.interpolate, LookupName)

\* a second lookup, run on a two-layer table to which the first lookup has
\* appended its copy of the last layer, interpolating between the two layers
C13_Witness ==
    /\ lk.n = 2 /\ Len(parsed) = 2 /\ Len(layers) = 4
    /\ Appended = <<parsed[2], parsed[2]>>
    /\ lk.interpolate /\ Returned(lk.out)
    /\ FGt(parsed[2][1], lk.depth) /\ FGt(lk.depth, parsed[1][1])
    /\ ValueOf(lk.out).vp_source = interpolated_name(LookupName)

(***************************************************************************)
(* run_acceptance_test (ucvm/src/shared/test.py).  The reference array is  *)
(* a sequence of sequences of sequences of <<vp, vs, density>> triples, so *)
(* the source's arr[x][y][z] is the model's arr[x + 1][y + 1][z + 1]; the  *)
(* model under test is the function ucvm from a queried point to the       *)
(* <<vp, vs, density>> it answers there, None for an absent property.      *)
(***************************************************************************)
spacing == <<1, 20>>
depth_step == 5000

\* float(text) on the coordinate texts of the bounded inputs
float_of_text(text) ==
    CASE text = "-118.5" -> Return(<<-237, 2>>)
      [] text = "34" -> Return(<<34, 1>>)
      [] text = "0" -> Return(<<0, 1>>)
      [] OTHER -> Raise("ValueError")

Point(x_value, y_value, z_value) ==
    [x_value |-> x_value, y_value |-> y_value, z_value |-> z_value]

\* Point(bottom_corner["e"] + spacing * x, bottom_corner["n"] + spacing * y,
\*       0 + depth * z)
grid_point(bottom_corner, x, y, z) ==
    Point(FAdd(bottom_corner.e, FMul(spacing, float(x))),
          FAdd(bottom_corner.n, FMul(spacing, float(y))),
          float(0 + depth_step * z))

\* the <<x, y, z>> of the three nested range loops, in the order they are run
loop_indices(nums) ==
    [k \in 1 .. nums.x * nums.y * nums.z |->
        <<(k - 1) \div (nums.y * nums.z),
          ((k - 1) \div nums.z) % nums.y,
          (k - 1) % nums.z>>]

\* SeismicData(): no point and no result yet
NewSeismicData == [original_point |-> <<>>, velocity_properties |-> <<>>]

\* the first loop: the point of the k-th iteration goes to sd_array[counter],
\* and counter goes up by one
RECURSIVE set_points(_, _, _, _, _)
set_points(sd_array, counter, bottom_corner, indices, k) ==
    IF k > Len(indices) THEN sd_array
    ELSE set_points(
            [sd_array EXCEPT ![counter + 1].original_point =
                <<grid_point(bottom_corner, indices[k][1], indices[k][2],
                             indices[k][3])>>],
            counter + 1, bottom_corner, indices, k + 1)

\* UCVM.query(sd_array, model_id, [model_type]): every element of the list is
\* given, in place, the properties the model has at its original point
UCVM_query(sd_array, ucvm) ==
    [i \in 1 .. Len(sd_array) |->
        [sd_array[i] EXCEPT !.velocity_properties =
            LET v == ucvm[sd_array[i].original_point[1]]
            IN  <<VelocityProperties(v[1], v[2], v[3], None, None, NoneStr, NoneStr,
                                     NoneStr, NoneStr, NoneStr)>>]]

\* round(q, 0) of a float q >= 0: the nearest whole number, a half to the even one
round_0(q) ==
    LET whole == q[1] \div q[2]
        rest == q[1] - whole * q[2]
    IN  IF 2 * rest < q[2] THEN whole
        ELSE IF 2 * rest > q[2] THEN whole + 1
        ELSE IF whole % 2 = 0 THEN whole ELSE whole + 1

\* abs(first - second)
abs_diff(first, second) ==
    LET diff == FSub(first, second)
    IN  <<Abs(diff[1]), diff[2]>>

\* test_case.assertAlmostEqual(first, second, 0): "" when it passes, and the
\* exception it ends with otherwise
assertAlmostEqual(first, second) ==
    IF first = second THEN ""
    ELSE IF first = None THEN "TypeError"
    ELSE IF round_0(abs_diff(first, second)) = 0 THEN ""
    ELSE "AssertionError"

\* the condition of the if at the head of the comparison loop's body
skip_comparison(entry, velocity_properties) ==
    \/ ~FGt(entry[1], float(0)) /\ velocity_properties.vp = None
    \/ ~FGt(entry[2], float(0)) /\ velocity_properties.vs = None
    \/ ~FGt(entry[3], float(0)) /\ velocity_properties.density = None

\* the three assertions in their order: "" when all pass, else the first exception
assert_point(entry, velocity_properties) ==
    IF assertAlmostEqual(velocity_properties.vp, entry[1]) # ""
    THEN assertAlmostEqual(velocity_properties.vp, entry[1])
    ELSE IF assertAlmostEqual(velocity_properties.vs, entry[2]) # ""
    THEN assertAlmostEqual(velocity_properties.vs, entry[2])
    ELSE assertAlmostEqual(velocity_properties.density, entry[3])

\* counter left where it is when a point is skipped
counter_kept_on_skip(counter) == counter

\* counter += 1 before the continue
counter_after_skip(counter) == counter + 1

(***************************************************************************)
(* The acceptance test as a state machine: the files are read, the grid of *)
(* points is set, the model is queried, and the comparison loop is run one *)
(* grid point at a step.                                                   *)
(***************************************************************************)
MaxPoints == 4

\* what a grid point's reference entry and the model's answer there can be:
\* a vp half a unit off, a vs three quarters of a unit off, nothing computed
\* and nothing answered, a density neither computed nor answered beside a vs
\* that is off, a vp not computed but answered, a vs computed but not answered
PointCases ==
    << [entry |-> << <<11, 2>>, <<3, 1>>, <<2, 1>> >>,
        answer |-> << <<5, 1>>, <<3, 1>>, <<2, 1>> >>],
       [entry |-> << <<5, 1>>, <<15, 4>>, <<2, 1>> >>,
        answer |-> << <<5, 1>>, <<3, 1>>, <<2, 1>> >>],
       [entry |-> << <<-1, 1>>, <<-1, 1>>, <<-1, 1>> >>,
        answer |-> <<None, None, None>>],
       [entry |-> << <<5, 1>>, <<3, 1>>, <<0, 1>> >>,
        answer |-> << <<5, 1>>, <<9, 1>>, None>>],
       [entry |-> << <<-1, 1>>, <<3, 1>>, <<2, 1>> >>,
        answer |-> << <<5, 1>>, <<3, 1>>, <<2, 1>> >>],
       [entry |-> << <<5, 1>>, <<3, 1>>, <<2, 1>> >>,
        answer |-> << <<5, 1>>, None, <<2, 1>> >>] >>

\* the shapes of the reference array, an empty axis included
Shapes ==
    {shape \in (0 .. MaxPoints) \X (0 .. MaxPoints) \X (0 .. MaxPoints) :
        shape[1] * shape[2] * shape[3] <= MaxPoints}

\* the place of grid point <<x, y, z>> in the choice of a case for every point
case_of(shape, choice, x, y, z) ==
    PointCases[choice[x * shape[2] * shape[3] + y * shape[3] + z + 1]]

reference_array(shape, choice) ==
    [x \in 1 .. shape[1] |-> [y \in 1 .. shape[2] |-> [z \in 1 .. shape[3] |->
        case_of(shape, choice, x - 1, y - 1, z - 1).entry]]]

\* the model that answers, at the point of grid index <<x, y, z>>, what the
\* case chosen for that index says
model_under_test(shape, choice, bottom_corner) ==
    LET grid == (0 .. shape[1] - 1) \X (0 .. shape[2] - 1) \X (0 .. shape[3] - 1)
    IN  [p \in {grid_point(bottom_corner, g[1], g[2], g[3]) : g \in grid} |->
            LET g == CHOOSE g \in grid : grid_point(bottom_corner, g[1], g[2], g[3]) = p
            IN  case_of(shape, choice, g[1], g[2], g[3]).answer]

ModelFile == [e |-> "-118.5", n |-> "34", type |-> "velocity"]
ModelCorner == [e |-> <<-237, 2>>, n |-> <<34, 1>>]

\* the choices of a case for every point of a grid
Choices(shape) == [1 .. shape[1] * shape[2] * shape[3] -> 1 .. Len(PointCases)]

\* an installed model with both files
InstalledWorld(shape, choice) ==
    [npy_exists |-> TRUE, xml_exists |-> TRUE, ucvm_model |-> ModelFile,
     arr |-> reference_array(shape, choice),
     ucvm |-> model_under_test(shape, choice, ModelCorner)]

\* a model with a file missing, and one whose corner is not a number
BrokenWorlds ==
    {[npy_exists |-> npy, xml_exists |-> xml, ucvm_model |-> file,
      arr |-> reference_array(<<1, 1, 1>>, <<1>>),
      ucvm |-> model_under_test(<<1, 1, 1>>, <<1>>, ModelCorner)] :
     <<npy, xml, file>> \in
        {<<FALSE, TRUE, ModelFile>>, <<TRUE, FALSE, ModelFile>>,
         <<FALSE, FALSE, ModelFile>>,
         <<TRUE, TRUE, [e |-> "0", n |-> "n/a", type |-> "velocity"]>>}}

Running == Raise("running")

\* the locals at the head of run_acceptance_test
Started(world) ==
    [pc |-> "start",
     npy_exists |-> world.npy_exists,
     xml_exists |-> world.xml_exists,
     ucvm_model |-> world.ucvm_model,
     arr |-> world.arr,
     ucvm |-> world.ucvm,
     model_type |-> "",
     bottom_corner |-> [e |-> float(0), n |-> float(0)],
     nums |-> [x |-> 0, y |-> 0, z |-> 0],
     sd_array |-> <<>>,
     counter |-> 0,
     looped |-> 0,
     compared |-> <<>>,
     out |-> Running]

InitAccept ==
    /\ \/ \E shape \in Shapes : \E choice \in Choices(shape) :
             acceptance = Started(InstalledWorld(shape, choice))
       \/ \E world \in BrokenWorlds : acceptance = Started(world)
    /\ lookupIdle
    /\ files = <<>> /\ kwargs = <<>> /\ data = <<>> /\ ret = <<>>
    /\ num = 0 /\ fmt = ""
    /\ pc = "idle" /\ inst = <<>>

otherVars == <<lookupVars, queryVars, fmtVars, installVars>>

\* the two files are looked for, the model file and the reference array are
\* read, and the list of SeismicData is made
LoadReference ==
    /\ acceptance.pc = "start"
    /\ acceptance' =
          IF ~acceptance.npy_exists \/ ~acceptance.xml_exists
          THEN [acceptance EXCEPT !.pc = "returned", !.out = Return(FALSE)]
          ELSE IF ~Returned(float_of_text(acceptance.ucvm_model.e))
          THEN [acceptance EXCEPT !.pc = "raised", !.out = Raise("ValueError")]
          ELSE IF ~Returned(float_of_text(acceptance.ucvm_model.n))
          THEN [acceptance EXCEPT
                   !.pc = "raised", !.out = Raise("ValueError"),
                   !.bottom_corner.e = ValueOf(float_of_text(acceptance.ucvm_model.e))]
          ELSE IF Len(acceptance.arr) = 0 \/ Len(acceptance.arr[1]) = 0
          THEN [acceptance EXCEPT
                   !.pc = "raised", !.out = Raise("IndexError"),
                   !.bottom_corner.e = ValueOf(float_of_text(acceptance.ucvm_model.e)),
                   !.bottom_corner.n = ValueOf(float_of_text(acceptance.ucvm_model.n)),
                   !.model_type = acceptance.ucvm_model.type]
          ELSE [acceptance EXCEPT
                   !.pc = "points",
                   !.bottom_corner.e = ValueOf(float_of_text(acceptance.ucvm_model.e)),
                   !.bottom_corner.n = ValueOf(float_of_text(acceptance.ucvm_model.n)),
                   !.model_type = acceptance.ucvm_model.type,
                   !.nums = [x |-> Len(acceptance.arr),
                             y |-> Len(acceptance.arr[1]),
                             z |-> Len(acceptance.arr[1][1])],
                   !.sd_array = [k \in 1 .. Len(acceptance.arr)
                                            * Len(acceptance.arr[1])
                                            * Len(acceptance.arr[1][1]) |->
                                    NewSeismicData],
                   !.counter = 0]
    /\ UNCHANGED otherVars

\* the first three nested loops: every element of the list gets its point
SetPoints ==
    /\ acceptance.pc = "points"
    /\ acceptance' =
          [acceptance EXCEPT
              !.pc = "query",
              !.sd_array = set_points(@, 0, acceptance.bottom_corner,
                                      loop_indices(acceptance.nums), 1),
              !.counter = Len(loop_indices(acceptance.nums))]
    /\ UNCHANGED otherVars

\* UCVM.query(sd_array, model_id, [model_type]) and counter = 0
QueryModel ==
    /\ acceptance.pc = "query"
    /\ acceptance' =
          [acceptance EXCEPT
              !.pc = "compare",
              !.sd_array = UCVM_query(@, acceptance.ucvm),
              !.counter = 0,
              !.looped = 0]
    /\ UNCHANGED otherVars

\* what the comparison loop looks at in its next iteration
Compared(outcome) ==
    LET at == loop_indices(acceptance.nums)[acceptance.looped + 1]
        sd == acceptance.sd_array[acceptance.counter + 1]
    IN  [at |-> at,
         entry |-> acceptance.arr[at[1] + 1][at[2] + 1][at[3] + 1],
         point |-> sd.original_point[1],
         answer |-> <<sd.velocity_properties[1].vp, sd.velocity_properties[1].vs,
                      sd.velocity_properties[1].density>>,
         outcome |-> outcome]

\* one iteration of the comparison loop: the point is skipped, or its three
\* properties are asserted and the first assertion that does not pass ends the test
ComparePoint ==
    /\ acceptance.pc = "compare"
    /\ acceptance.looped < Len(loop_indices(acceptance.nums))
    /\ LET at == loop_indices(acceptance.nums)[acceptance.looped + 1]
           entry == acceptance.arr[at[1] + 1][at[2] + 1][at[3] + 1]
           velocity_properties ==
               acceptance.sd_array[acceptance.counter + 1].velocity_properties[1]
       IN  acceptance' =
              IF skip_comparison(entry, velocity_properties)
              THEN [acceptance EXCEPT
                       !.counter = counter_after_skip(@),
                       !.looped = @ + 1,
                       !.compared = Append(@, Compared("skipped"))]
              ELSE IF assert_point(entry, velocity_properties) = ""
              THEN [acceptance EXCEPT
                       !.counter = @ + 1,
                       !.looped = @ + 1,
                       !.compared = Append(@, Compared("passed"))]
              ELSE [acceptance EXCEPT
                       !.pc = "raised",
                       !.out = Raise(assert_point(entry, velocity_properties)),
                       !.compared = Append(@, Compared(assert_point(entry,
                                                                    velocity_properties)))]
    /\ UNCHANGED otherVars

\* the loops have run to their end: return True
ReturnTrue ==
    /\ acceptance.pc = "compare"
    /\ acceptance.looped = Len(loop_indices(acceptance.nums))
    /\ acceptance' = [acceptance EXCEPT !.pc = "returned", !.out = Return(TRUE)]
    /\ UNCHANGED otherVars

NextAccept ==
    \/ LoadReference
    \/ SetPoints
    \/ QueryModel
    \/ ComparePoint
    \/ ReturnTrue

SpecAccept == InitAccept /\ [][NextAccept]_vars

(***************************************************************************)
(* Properties of the acceptance test.                                      *)
(***************************************************************************)
\* the reference marks the property as not computed
NotComputed(value) == FGe(float(0), value)

\* equal within 0 decimal places: the difference rounds to 0
WithinZeroPlaces(answer, value) ==
    /\ answer # None
    /\ FGe(<<1, 2>>, FSub(answer, value))
    /\ FGe(FSub(answer, value), <<-1, 2>>)

\* (bottom-left e + 0.05 * x, bottom-left n + 0.05 * y, 5000 * z)
QueriedAt(at) ==
    [x_value |-> FAdd(ModelCorner.e, Ratio(at[1], 20)),
     y_value |-> FAdd(ModelCorner.n, Ratio(at[2], 20)),
     z_value |-> <<5000 * at[3], 1>>]

\* the <<x, y, z>> of the reference array
GridIndices ==
    {<<x, y, z>> \in (0 .. MaxPoints) \X (0 .. MaxPoints) \X (0 .. MaxPoints) :
        /\ x < Len(acceptance.arr)
        /\ y < Len(acceptance.arr[1])
        /\ z < Len(acceptance.arr[1][1])}

\* C12: every iteration of the comparison loop sets reference entry [x][y][z]
\* against the live result queried at (bottom-left e + 0.05 * x, bottom-left
\* n + 0.05 * y, 5000 * z), whether or not earlier points were skipped; the
\* point is skipped exactly when some property is marked not computed (<= 0)
\* in the reference and is absent from the live result; any other point goes
\* by only if its vp, vs and density are each equal to the reference within 0
\* decimal places, and ends the test otherwise; and the test returns True
\* only when every grid point of the reference array has been gone through.
C12_ComparedPointByPoint ==
    /\ \A k \in 1 .. Len(acceptance.compared) :
          LET c == acceptance.compared[k]
          IN  /\ c.entry = acceptance.arr[c.at[1] + 1][c.at[2] + 1][c.at[3] + 1]
              /\ c.point = QueriedAt(c.at)
              /\ c.answer = acceptance.ucvm[QueriedAt(c.at)]
              /\ c.outcome = "skipped" <=>
                    \E j \in 1 .. 3 : NotComputed(c.entry[j]) /\ c.answer[j] = None
              /\ c.outcome = "passed" <=>
                    /\ c.outcome # "skipped"
                    /\ \A j \in 1 .. 3 : WithinZeroPlaces(c.answer[j], c.entry[j])
              /\ c.outcome \notin {"skipped", "passed"} =>
                    /\ k = Len(acceptance.compared)
                    /\ acceptance.pc = "raised"
                    /\ acceptance.out = Raise(c.outcome)
    /\ acceptance.out = Return(TRUE) =>
          /\ {acceptance.compared[k].at : k \in 1 .. Len(acceptance.compared)}
                = GridIndices
          /\ Len(acceptance.compared) = Cardinality(GridIndices)

\* a test that returned True over a grid of four points with two values of y
\* and two of z: a point skipped on its density alone was followed by a point
\* that was asserted and passed with a vp half a unit off the reference
C12_Witness ==
    /\ acceptance.out = Return(TRUE)
    /\ acceptance.nums = [x |-> 1, y |-> 2, z |-> 2]
    /\ Len(acceptance.compared) = 4
    /\ \E k \in 1 .. 3 :
          /\ acceptance.compared[k].outcome = "skipped"
          /\ acceptance.compared[k].answer[1] # None
          /\ acceptance.compared[k + 1].outcome = "passed"
          /\ acceptance.compared[k + 1].answer[1] # acceptance.compared[k + 1].entry[1]

====
